---- MODULE Spec2Model ----
(***************************************************************************)
(* Launch / pause / resume workflow runner of                              *)
(* src/src/factor-06-launch-pause-resume/index.ts.                         *)
(*                                                                         *)
(* The runner keeps WorkflowState objects in the module-level Map          *)
(* workflowStates.  launchWorkflow and resumeWorkflow are async functions: *)
(* each runs synchronously up to its next `await step.execute(...)`, so a  *)
(* call is modelled as a sequence of atomic segments that interleave with  *)
(* the segments of other calls at the awaits.  WorkflowState objects are   *)
(* shared by reference between the Map and the calls that hold them, so    *)
(* they live in a heap and the Map holds references.                       *)
(***************************************************************************)
EXTENDS Integers, Sequences, FiniteSets, TLC

VARIABLES
    steps,          \* const steps: WorkflowStep[] (the pipeline)
    workflowStates, \* Map<string, WorkflowState>: runId -> heap reference
    heap,           \* the WorkflowState objects, by reference
    calls,          \* the launchWorkflow / resumeWorkflow calls made so far
    now,            \* the last value Date.now() returned
    finalStates     \* what loadWorkflowState returned to its callers, in order

vars == <<steps, workflowStates, heap, calls, now, finalStates>>

-----------------------------------------------------------------------------
(* Bounds of the model *)

MaxCalls == 4   \* launchWorkflow / resumeWorkflow calls in one behaviour
MaxNow == 2     \* largest reading of the clock
MaxLoads == 2   \* loadWorkflowState calls by callers outside the runner
MaxLoadCalls == 2   \* launchWorkflow / resumeWorkflow calls where states are loaded
MaxWords == 3   \* longest user input, in lexemes, where inputs are enumerated
MaxRelaunchCalls == 3   \* launchWorkflow / resumeWorkflow calls where runIds are reused
MaxFairCalls == 6   \* launchWorkflow / resumeWorkflow calls where awaited steps settle

-----------------------------------------------------------------------------
(* JavaScript values: every value carries its type tag *)

Undefined == [t |-> "undefined"]
Bool(b) == [t |-> "boolean", v |-> b]
Num(n) == [t |-> "number", v |-> n]
\* a string is the sequence of its lexemes (words, numerals, operator signs)
Str(words) == [t |-> "string", v |-> words]
List(s) == [t |-> "array", v |-> s]
Obj(fields) == [t |-> "object", v |-> fields]

EmptyRecord == [f \in {} |-> Undefined]

\* property read o.f: a missing property reads as undefined
Get(o, f) == IF o.t = "object" /\ f \in DOMAIN o.v THEN o.v[f] ELSE Undefined

\* a write that replaces the whole record by the one property
SetFieldAlone(rec, f, x) == (f :> x)

\* property write o[f] = x on a Record<string, unknown>
SetField(rec, f, x) == (f :> x) @@ rec

\* ToBoolean
Truthy(x) ==
    CASE x.t = "boolean" -> x.v
      [] x.t = "undefined" -> FALSE
      [] x.t = "number" -> x.v # 0
      [] x.t = "string" -> x.v # <<>>
      [] OTHER -> TRUE

Abs(n) == IF n < 0 THEN -n ELSE n

\* String(x) as used by template literals
ToText(x) ==
    CASE x.t = "string" -> x.v
      [] x.t = "number" -> <<ToString(x.v)>>
      [] x.t = "boolean" -> IF x.v THEN <<"true">> ELSE <<"false">>
      [] x.t = "undefined" -> <<"undefined">>
      [] OTHER -> <<"[object Object]">>

-----------------------------------------------------------------------------
(* What step.execute resolves to: a step result, or a rejection *)

\* a step result that leaves the reason out
StepResultWithoutReason(output, suspend, reason) ==
    [threw |-> FALSE, output |-> output, suspend |-> suspend, reason |-> Undefined,
     error |-> <<>>]

StepResult(output, suspend, reason) ==
    [threw |-> FALSE, output |-> output, suspend |-> suspend, reason |-> reason,
     error |-> <<>>]

Throws(message) ==
    [threw |-> TRUE, output |-> Undefined, suspend |-> Undefined,
     reason |-> Undefined, error |-> message]

-----------------------------------------------------------------------------
(* The steps of the workflow *)

\* the numerals /\d+/g can match in the inputs of the model, and Number() of each
NumberOf ==
    ("0" :> 0) @@ ("2" :> 2) @@ ("3" :> 3) @@ ("5" :> 5) @@ ("8" :> 8) @@
    ("25" :> 25) @@ ("30" :> 30)

\* String.prototype.toLowerCase on one lexeme
LowerWord(w) ==
    CASE w = "Add" -> "add"
      [] w = "MULTIPLY" -> "multiply"
      [] w = "Divide" -> "divide"
      [] OTHER -> w

ToLowerCase(text) == [i \in 1..Len(text) |-> LowerWord(text[i])]

\* text.includes(word)
Includes(text, word) == \E i \in 1..Len(text) : text[i] = word

IsNumeral(w) == w \in DOMAIN NumberOf

\* a parser that asks for clarification only when numbers are missing
ParseRequestExecuteAnyOperation(input) ==
    LET userInput == Get(input, "userInput") IN
    IF userInput.t # "string" THEN Throws(<<"TypeError">>)
    ELSE
    LET text == ToLowerCase(userInput.v)
        numberMatches == SelectSeq(text, IsNumeral)
        numbers == [i \in 1..Len(numberMatches) |-> NumberOf[numberMatches[i]]]
        operation ==
            IF Includes(text, "add") \/ Includes(text, "+") THEN "add"
            ELSE IF Includes(text, "multiply") \/ Includes(text, "*") THEN "multiply"
            ELSE IF Includes(text, "divide") \/ Includes(text, "/") THEN "divide"
            ELSE IF Includes(text, "subtract") \/ Includes(text, "-") THEN "subtract"
            ELSE "unknown"
        needsClarification == Len(numbers) < 2
    IN StepResult(
           Obj([numbers |-> List(numbers), operation |-> Str(<<operation>>),
                needsClarification |-> Bool(needsClarification),
                originalInput |-> userInput]),
           Bool(needsClarification),
           IF needsClarification THEN Str(<<"clarification_needed">>) ELSE Undefined)

\* steps[0].execute
ParseRequestExecute(input) ==
    LET userInput == Get(input, "userInput") IN
    IF userInput.t # "string" THEN Throws(<<"TypeError">>)
    ELSE
    LET text == ToLowerCase(userInput.v)
        numberMatches == SelectSeq(text, IsNumeral)
        numbers == [i \in 1..Len(numberMatches) |-> NumberOf[numberMatches[i]]]
        operation ==
            IF Includes(text, "add") \/ Includes(text, "+") THEN "add"
            ELSE IF Includes(text, "multiply") \/ Includes(text, "*") THEN "multiply"
            ELSE IF Includes(text, "divide") \/ Includes(text, "/") THEN "divide"
            ELSE IF Includes(text, "subtract") \/ Includes(text, "-") THEN "subtract"
            ELSE "unknown"
        needsClarification == Len(numbers) < 2 \/ operation = "unknown"
    IN StepResult(
           Obj([numbers |-> List(numbers), operation |-> Str(<<operation>>),
                needsClarification |-> Bool(needsClarification),
                originalInput |-> userInput]),
           Bool(needsClarification),
           IF needsClarification THEN Str(<<"clarification_needed">>) ELSE Undefined)

\* steps[1].execute
ClarificationExecute(input) ==
    LET numbers == Get(input, "numbers")
        operation == Get(input, "operation")
        needsClarification == Get(input, "needsClarification")
    IN IF Truthy(needsClarification)
       THEN StepResult(Obj([suspended |-> Bool(TRUE)]), Bool(TRUE),
                       Str(<<"clarification_needed">>))
       ELSE StepResult(
                Obj([finalNumbers |-> numbers, finalOperation |-> operation,
                     clarificationProvided |-> Bool(FALSE)]),
                Undefined, Undefined)

\* steps[2].execute; the arrays of the model hold integers, and the divisions
\* of the model are exact
CalculationExecute(input) ==
    LET finalNumbers == Get(input, "finalNumbers")
        finalOperation == Get(input, "finalOperation")
    IN
    IF finalNumbers.t # "array" THEN Throws(<<"finalNumbers", "is", "not", "iterable">>)
    ELSE
    LET a == IF Len(finalNumbers.v) >= 1 THEN finalNumbers.v[1] ELSE 0
        b == IF Len(finalNumbers.v) >= 2 THEN finalNumbers.v[2] ELSE 0
        known == finalOperation \in
                    {Str(<<"add">>), Str(<<"multiply">>), Str(<<"divide">>),
                     Str(<<"subtract">>)}
    IN
    IF ~known THEN Throws(<<"Unknown", "operation:">> \o ToText(finalOperation))
    ELSE IF finalOperation = Str(<<"divide">>) /\ b = 0
    THEN Throws(<<"Cannot", "divide", "by", "zero">>)
    ELSE
    LET result ==
            CASE finalOperation = Str(<<"add">>) -> a + b
              [] finalOperation = Str(<<"multiply">>) -> a * b
              [] finalOperation = Str(<<"divide">>) -> a \div b
              [] finalOperation = Str(<<"subtract">>) -> a - b
        explanation ==
            Str(<<ToString(a)>> \o finalOperation.v
                \o <<ToString(b), "=", ToString(result)>>)
        needsApproval == Abs(result) > 50
    IN StepResult(
           Obj([result |-> Num(result), explanation |-> explanation,
                needsApproval |-> Bool(needsApproval)]),
           Bool(needsApproval),
           IF needsApproval THEN Str(<<"approval_needed">>) ELSE Undefined)

\* steps[3].execute
ApprovalExecute(input) ==
    LET result == Get(input, "result")
        explanation == Get(input, "explanation")
        needsApproval == Get(input, "needsApproval")
    IN IF Truthy(needsApproval)
       THEN StepResult(Obj([suspended |-> Bool(TRUE)]), Bool(TRUE),
                       Str(<<"approval_needed">>))
       ELSE StepResult(
                Obj([approved |-> Bool(TRUE), finalResult |-> result,
                     message |-> Str(<<"Completed:">> \o ToText(explanation))]),
                Undefined, Undefined)

\* const steps: WorkflowStep[]
WorkflowSteps ==
    << [id |-> "parse-request", name |-> "Parse Request", needsSuspension |-> FALSE],
       [id |-> "clarification", name |-> "Clarification", needsSuspension |-> TRUE],
       [id |-> "calculation", name |-> "Calculation", needsSuspension |-> FALSE],
       [id |-> "approval", name |-> "Approval", needsSuspension |-> TRUE] >>

\* The three-step pipeline [parse, clarify, compute] of the specification's
\* test scenario: parse always yields {n: 5}, clarify suspends with reason
\* "needs review" when n < 10 and passes its input on otherwise, compute yields
\* {doubled: n * 2}
ScenarioParseExecute(input) == StepResult(Obj([n |-> Num(5)]), Undefined, Undefined)

ScenarioClarifyExecute(input) ==
    LET n == Get(input, "n") IN
    IF n.t = "number" /\ n.v < 10
    THEN StepResult(input, Bool(TRUE), Str(<<"needs review">>))
    ELSE StepResult(input, Undefined, Undefined)

ScenarioComputeExecute(input) ==
    LET n == Get(input, "n") IN
    IF n.t # "number" THEN Throws(<<"n", "is", "not", "a", "number">>)
    ELSE StepResult(Obj([doubled |-> Num(n.v * 2)]), Undefined, Undefined)

ScenarioSteps ==
    << [id |-> "parse", name |-> "parse", needsSuspension |-> FALSE],
       [id |-> "clarify", name |-> "clarify", needsSuspension |-> TRUE],
       [id |-> "compute", name |-> "compute", needsSuspension |-> FALSE] >>

\* A pipeline with two steps that ask for suspension without saying why, which
\* the type of execute allows (reason?: string): parse as above, review suspends
\* with no reason at all, compute as above, audit suspends with the reason ''
NoReasonReviewExecute(input) == StepResult(input, Bool(TRUE), Undefined)

NoReasonAuditExecute(input) == StepResult(input, Bool(TRUE), Str(<<>>))

NoReasonSteps ==
    << [id |-> "parse", name |-> "parse", needsSuspension |-> FALSE],
       [id |-> "review", name |-> "review", needsSuspension |-> TRUE],
       [id |-> "compute", name |-> "compute", needsSuspension |-> FALSE],
       [id |-> "audit", name |-> "audit", needsSuspension |-> TRUE] >>

\* step.execute(input)
Execute(step, input) ==
    CASE step.id = "parse-request" -> ParseRequestExecute(input)
      [] step.id = "clarification" -> ClarificationExecute(input)
      [] step.id = "calculation" -> CalculationExecute(input)
      [] step.id = "approval" -> ApprovalExecute(input)
      [] step.id = "parse" -> ScenarioParseExecute(input)
      [] step.id = "clarify" -> ScenarioClarifyExecute(input)
      [] step.id = "compute" -> ScenarioComputeExecute(input)
      [] step.id = "review" -> NoReasonReviewExecute(input)
      [] step.id = "audit" -> NoReasonAuditExecute(input)

-----------------------------------------------------------------------------
(* The state store *)

RunIds == {"run-1", "run-2"}

\* null: no WorkflowState object
NoRef == 0

\* Date.now() when the last reading was `last`: a logical clock, each reading
\* one later than the last; from MaxNow on the readings repeat (two readings
\* within one millisecond)
DateNow(last) == IF last < MaxNow THEN last + 1 ELSE last

\* a save that stores the state without stamping it
SaveWorkflowStateUnstamped(mem, state) ==
    [heap |-> mem.heap, map |-> [mem.map EXCEPT ![mem.heap[state].runId] = state],
     now |-> mem.now]

\* a store that keeps the last saved run only and drops every other entry
SaveWorkflowStateKeepsLast(mem, state) ==
    LET t == DateNow(mem.now)
        h == [mem.heap EXCEPT ![state].lastModified = t]
    IN [heap |-> h,
        map |-> [r \in DOMAIN mem.map |-> IF r = h[state].runId THEN state ELSE NoRef],
        now |-> t]

\* a store with one slot: the saved state answers for every runId
SaveWorkflowStateOneSlot(mem, state) ==
    LET t == DateNow(mem.now)
        h == [mem.heap EXCEPT ![state].lastModified = t]
    IN [heap |-> h, map |-> [r \in DOMAIN mem.map |-> state], now |-> t]

\* saveWorkflowState(state), on the memory mem = [heap, map, now]
SaveWorkflowState(mem, state) ==
    LET t == DateNow(mem.now)
        h == [mem.heap EXCEPT ![state].lastModified = t]
    IN [heap |-> h, map |-> [mem.map EXCEPT ![h[state].runId] = state], now |-> t]

\* a lookup that falls back on the state stored last when the runId is unknown
LoadWorkflowStateOrLast(runId) ==
    IF workflowStates[runId] # NoRef THEN workflowStates[runId] ELSE Len(heap)

\* loadWorkflowState(runId): a reference to the stored object itself, or null
LoadWorkflowState(runId) == workflowStates[runId]

\* the WorkflowState the store holds for runId (when it holds one)
Stored(runId) == heap[workflowStates[runId]]

-----------------------------------------------------------------------------
(* Calls of launchWorkflow and resumeWorkflow *)

NoResult == [threw |-> FALSE, output |-> Undefined, suspend |-> Undefined,
             reason |-> Undefined, error |-> <<>>]

\* what a call gave its caller
Pending == [o |-> "pending"]
Suspended(reason, runId, currentStep) ==
    [o |-> "suspended", suspended |-> TRUE, reason |-> reason, runId |-> runId,
     currentStep |-> currentStep]
Completed(result) == [o |-> "completed", completed |-> TRUE, result |-> result]
Failed(error) == [o |-> "failed", error |-> error]        \* a step's error, rethrown
Rejected(error) == [o |-> "rejected", error |-> error]    \* thrown before the try block

\* a call that has just been entered; arg is the input or the resumeData it
\* works on (none once resumeWorkflow has refused it), seen is the status
\* resumeWorkflow read in its first test, log lists the step.execute calls the
\* call made
NewCall(kind, runId, arg) ==
    [kind |-> kind, runId |-> runId, arg |-> arg, pc |-> "running", ws |-> NoRef,
     seen |-> "none", i |-> 0, pending |-> NoResult, log |-> <<>>,
     outcome |-> Pending]

Return(call, outcome) ==
    [call EXCEPT !.pc = "returned", !.outcome = outcome, !.pending = NoResult]

Throw(call, outcome) ==
    [call EXCEPT !.pc = "threw", !.outcome = outcome, !.pending = NoResult]

\* `await step.execute(currentInput)` for the step at position i
AwaitExecute(call, i, currentInput) ==
    [call EXCEPT !.pc = "await", !.i = i,
                 !.pending = Execute(steps[i], currentInput),
                 !.log = Append(@, [pos |-> i, step |-> steps[i].id,
                                    input |-> currentInput])]

\* a runner that reads the step's needsSuspension flag, not the step's result
SuspendRequestedByFlag(step, stepResult) == step.needsSuspension

\* if (stepResult.suspend)
SuspendRequested(step, stepResult) == Truthy(stepResult.suspend)

\* a catch block that also discards the outputs recorded so far
CatchBlockRollsBack(mem, call, error) ==
    [mem |-> SaveWorkflowState(
                 [mem EXCEPT !.heap[call.ws].status = "failed",
                             !.heap[call.ws].stepData = EmptyRecord], call.ws),
     call |-> [call EXCEPT !.pc = "threw", !.outcome = Failed(error),
                           !.pending = NoResult]]

\* a catch block that records the failure and hands the error back as a result
CatchBlockSwallows(mem, call, error) ==
    [mem |-> SaveWorkflowState(
                 [mem EXCEPT !.heap[call.ws].status = "failed"], call.ws),
     call |-> [call EXCEPT !.pc = "returned", !.outcome = Failed(error),
                           !.pending = NoResult]]

\* a catch block that rethrows without recording the failure
CatchBlockForgetsStatus(mem, call, error) ==
    [mem |-> mem, call |-> Throw(call, Failed(error))]

\* the catch block of launchWorkflow and of resumeWorkflow
CatchBlock(mem, call, error) ==
    [mem |-> SaveWorkflowState(
                 [mem EXCEPT !.heap[call.ws].status = "failed"], call.ws),
     call |-> Throw(call, Failed(error))]

\* launchWorkflow: the for loop from the top of the iteration for position i to
\* the next await, or past the loop to the return
LaunchLoop(mem, call, i, currentInput) ==
    IF i <= Len(steps)
    THEN [mem |-> [mem EXCEPT !.heap[call.ws].currentStep = steps[i].id],
          call |-> AwaitExecute(call, i, currentInput)]
    ELSE [mem |-> SaveWorkflowState(
                      [mem EXCEPT !.heap[call.ws].status = "completed"], call.ws),
          call |-> Return(call, Completed(currentInput))]

\* launchWorkflow from the point where the awaited step.execute settles
LaunchSettled(mem, call) ==
    LET stepResult == call.pending
        step == steps[call.i]
    IN
    IF stepResult.threw THEN CatchBlock(mem, call, stepResult.error)
    ELSE
    LET mem1 == [mem EXCEPT !.heap[call.ws].stepData =
                                SetField(@, step.id, stepResult.output)]
    IN
    IF SuspendRequested(step, stepResult)
    THEN [mem |-> SaveWorkflowState(
                      [mem1 EXCEPT !.heap[call.ws].status = "suspended",
                                   !.heap[call.ws].suspendReason = stepResult.reason],
                      call.ws),
          call |-> Return(call, Suspended(stepResult.reason, call.runId, step.id))]
    ELSE LaunchLoop(mem1, call, call.i + 1, stepResult.output)

\* steps.findIndex(step => step.id === id), counting positions from 1; 0 for -1
FindIndex(id) ==
    IF \E i \in 1..Len(steps) : steps[i].id = id
    THEN CHOOSE i \in 1..Len(steps) :
             steps[i].id = id /\ \A j \in 1..(i - 1) : steps[j].id # id
    ELSE 0

\* a precondition that lets a failed run be resumed as well
ResumeAcceptsFailed(mem, workflowState) ==
    workflowState # NoRef
        /\ mem.heap[workflowState].status \in {"suspended", "failed"}

\* a precondition that only refuses the runs that have ended
ResumeAcceptsUnfinished(mem, workflowState) ==
    workflowState # NoRef
        /\ mem.heap[workflowState].status \in {"suspended", "running"}

\* a precondition that only tests that the run exists
ResumeAcceptsAnyStored(mem, workflowState) == workflowState # NoRef

\* if (!workflowState || workflowState.status !== 'suspended') throw ...
ResumeAccepts(mem, workflowState) ==
    workflowState # NoRef /\ mem.heap[workflowState].status = "suspended"

\* a resume that runs the step it was suspended at once more
ResumeFromSameStep(currentStepIndex) == currentStepIndex

\* a resume that runs the last step once more when the run is suspended there
ResumeFromLastAgain(currentStepIndex) ==
    IF currentStepIndex = Len(steps) THEN currentStepIndex ELSE currentStepIndex + 1

\* the position resumeWorkflow's loop starts at
ResumeFrom(currentStepIndex) == currentStepIndex + 1

\* a resume loop that does not record the step it is about to execute
ResumeLoopKeepsStep(mem, call, i, currentInput) ==
    IF i <= Len(steps)
    THEN [mem |-> mem, call |-> AwaitExecute(call, i, currentInput)]
    ELSE [mem |-> SaveWorkflowState(
                      [mem EXCEPT !.heap[call.ws].status = "completed"], call.ws),
          call |-> [call EXCEPT !.pc = "returned",
                                !.outcome = Completed(currentInput),
                                !.pending = NoResult]]

\* resumeWorkflow: the for loop from the top of the iteration for position i to
\* the next await, or past the loop to the return
ResumeLoop(mem, call, i, currentInput) ==
    IF i <= Len(steps)
    THEN [mem |-> [mem EXCEPT !.heap[call.ws].currentStep = steps[i].id],
          call |-> AwaitExecute(call, i, currentInput)]
    ELSE [mem |-> SaveWorkflowState(
                      [mem EXCEPT !.heap[call.ws].status = "completed"], call.ws),
          call |-> Return(call, Completed(currentInput))]

\* resumeWorkflow from the point where the awaited step.execute settles
ResumeSettled(mem, call) ==
    LET stepResult == call.pending
        step == steps[call.i]
    IN
    IF stepResult.threw THEN CatchBlock(mem, call, stepResult.error)
    ELSE
    LET mem1 == [mem EXCEPT !.heap[call.ws].stepData =
                                SetField(@, step.id, stepResult.output)]
    IN
    IF SuspendRequested(step, stepResult)
    THEN [mem |-> SaveWorkflowState(
                      [mem1 EXCEPT !.heap[call.ws].status = "suspended",
                                   !.heap[call.ws].suspendReason = stepResult.reason],
                      call.ws),
          call |-> Return(call, Suspended(stepResult.reason, call.runId, step.id))]
    ELSE ResumeLoop(mem1, call, call.i + 1, stepResult.output)

\* a launch that builds its state and starts the steps without saving it first
LaunchEnteredUnsaved(mem, input, runId) ==
    LET ref == Len(mem.heap) + 1
        t == DateNow(mem.now)
        workflowState ==
            [runId |-> runId, status |-> "running", currentStep |-> "parse-request",
             stepData |-> EmptyRecord, inputData |-> Obj([userInput |-> input]),
             suspendReason |-> Undefined, lastModified |-> t]
        mem1 == [mem EXCEPT !.heap = Append(@, workflowState), !.now = t]
        call == [NewCall("launch", runId, input) EXCEPT !.ws = ref]
    IN LaunchLoop(mem1, call, 1, workflowState.inputData)

\* a launch that refuses a runId under which a state is stored
LaunchEnteredOnce(mem, input, runId) ==
    IF mem.map[runId] # NoRef
    THEN [mem |-> mem,
          call |-> Throw(NewCall("launch", runId, input),
                         Rejected(<<"Workflow", "already", "exists:", runId>>))]
    ELSE
    LET ref == Len(mem.heap) + 1
        t == DateNow(mem.now)
        workflowState ==
            [runId |-> runId, status |-> "running", currentStep |-> "parse-request",
             stepData |-> EmptyRecord, inputData |-> Obj([userInput |-> input]),
             suspendReason |-> Undefined, lastModified |-> t]
        mem1 == SaveWorkflowState(
                    [mem EXCEPT !.heap = Append(@, workflowState), !.now = t], ref)
        call == [NewCall("launch", runId, input) EXCEPT !.ws = ref]
    IN LaunchLoop(mem1, call, 1, workflowState.inputData)

\* launchWorkflow(input, runId) from its entry to its first await
LaunchEntered(mem, input, runId) ==
    LET ref == Len(mem.heap) + 1
        t == DateNow(mem.now)
        workflowState ==
            [runId |-> runId, status |-> "running", currentStep |-> "parse-request",
             stepData |-> EmptyRecord, inputData |-> Obj([userInput |-> input]),
             suspendReason |-> Undefined, lastModified |-> t]
        mem1 == SaveWorkflowState(
                    [mem EXCEPT !.heap = Append(@, workflowState), !.now = t], ref)
        call == [NewCall("launch", runId, input) EXCEPT !.ws = ref]
    IN LaunchLoop(mem1, call, 1, workflowState.inputData)

\* resumeWorkflow(runId, resumeData) from its entry to its first await
ResumeEntered(mem, runId, resumeData) ==
    LET workflowState == mem.map[runId]
        call == [NewCall("resume", runId, resumeData) EXCEPT
                     !.ws = workflowState,
                     !.seen = IF workflowState = NoRef THEN "none"
                              ELSE mem.heap[workflowState].status]
    IN
    IF ~ResumeAccepts(mem, workflowState)
    THEN [mem |-> mem,
          call |-> Throw([call EXCEPT !.arg = Undefined], Rejected(<<"No", "suspended", "workflow", "found",
                                          "for", "runId:", runId>>))]
    ELSE
    LET mem1 == SaveWorkflowState(
                    [mem EXCEPT !.heap[workflowState].status = "running"],
                    workflowState)
        currentStepIndex == FindIndex(mem.heap[workflowState].currentStep)
    IN
    IF currentStepIndex = 0
    THEN CatchBlock(mem1, call, <<"Invalid", "step:">>)
    ELSE ResumeLoop(mem1, call, ResumeFrom(currentStepIndex), resumeData)

-----------------------------------------------------------------------------
(* What the callers pass in *)

\* the input strings of launchWorkflow
UserInputs ==
    { Str(<<"Add", "5", "and", "3">>),
      Str(<<"do", "something", "with", "numbers">>),
      Str(<<"MULTIPLY", "25", "by", "30">>),
      Str(<<"Divide", "8", "by", "0">>) }

\* the resumeData objects of resumeWorkflow
ResumeDatas ==
    { Obj([finalNumbers |-> List(<<10, 20>>), finalOperation |-> Str(<<"add">>),
           clarificationProvided |-> Bool(TRUE)]),
      Obj([result |-> Num(750),
           explanation |-> Str(<<"25", "multiply", "30", "=", "750">>),
           needsApproval |-> Bool(FALSE)]),
      Obj([numbers |-> List(<<25, 30>>), operation |-> Str(<<"multiply">>),
           needsClarification |-> Bool(FALSE)]),
      Obj([numbers |-> List(<<5, 3>>), operation |-> Str(<<"add">>),
           needsClarification |-> Bool(FALSE)]),
      Obj([numbers |-> List(<<8, 0>>), operation |-> Str(<<"divide">>)]),
      Obj([needsClarification |-> Bool(TRUE)]),
      Obj([result |-> Num(750), needsApproval |-> Bool(TRUE)]) }

-----------------------------------------------------------------------------
(* The state machine *)

Memory == [heap |-> heap, map |-> workflowStates, now |-> now]

Init ==
    /\ steps = WorkflowSteps
    /\ workflowStates = [r \in RunIds |-> NoRef]
    /\ heap = <<>>
    /\ calls = <<>>
    /\ now = 0
    /\ finalStates = <<>>

\* a caller enters launchWorkflow(input, runId); it runs to its first await
LaunchWorkflow(input, runId) ==
    /\ Len(calls) < MaxCalls
    /\ LET st == LaunchEntered(Memory, input, runId) IN
        /\ heap' = st.mem.heap
        /\ workflowStates' = st.mem.map
        /\ now' = st.mem.now
        /\ calls' = Append(calls, st.call)
    /\ UNCHANGED <<steps, finalStates>>

\* the step a launchWorkflow call awaits settles; the call runs to its next
\* await, or returns, or throws
LaunchWorkflowContinues(c) ==
    /\ calls[c].kind = "launch"
    /\ calls[c].pc = "await"
    /\ LET st == LaunchSettled(Memory, calls[c]) IN
        /\ heap' = st.mem.heap
        /\ workflowStates' = st.mem.map
        /\ now' = st.mem.now
        /\ calls' = [calls EXCEPT ![c] = st.call]
    /\ UNCHANGED <<steps, finalStates>>

\* a caller enters resumeWorkflow(runId, resumeData); it throws, or runs to its
\* first await, or returns
ResumeWorkflow(runId, resumeData) ==
    /\ Len(calls) < MaxCalls
    /\ LET st == ResumeEntered(Memory, runId, resumeData) IN
        /\ heap' = st.mem.heap
        /\ workflowStates' = st.mem.map
        /\ now' = st.mem.now
        /\ calls' = Append(calls, st.call)
    /\ UNCHANGED <<steps, finalStates>>

\* the step a resumeWorkflow call awaits settles
ResumeWorkflowContinues(c) ==
    /\ calls[c].kind = "resume"
    /\ calls[c].pc = "await"
    /\ LET st == ResumeSettled(Memory, calls[c]) IN
        /\ heap' = st.mem.heap
        /\ workflowStates' = st.mem.map
        /\ now' = st.mem.now
        /\ calls' = [calls EXCEPT ![c] = st.call]
    /\ UNCHANGED <<steps, finalStates>>

\* the runId of the next launch: callers launch each runId once (a second launch
\* with a runId is outside the runner's contract), here run-1 first
NextRunId ==
    CASE workflowStates["run-1"] = NoRef -> "run-1"
      [] workflowStates["run-2"] = NoRef -> "run-2"
      [] OTHER -> "none"

Next ==
    \/ \E input \in UserInputs, runId \in RunIds :
           runId = NextRunId /\ LaunchWorkflow(input, runId)
    \/ \E c \in 1..Len(calls) : LaunchWorkflowContinues(c)
    \/ \E runId \in RunIds, resumeData \in ResumeDatas :
           ResumeWorkflow(runId, resumeData)
    \/ \E c \in 1..Len(calls) : ResumeWorkflowContinues(c)

Spec == Init /\ [][Next]_vars

\* The runner on the pipeline of the specification's test scenario
ScenarioInputs == { Str(<<>>) }

ScenarioResumeDatas ==
    { Obj([n |-> Num(5)]), Obj([n |-> Num(12)]), Obj([n |-> Num(0), note |-> Str(<<"ok">>)]) }

InitScenario ==
    /\ steps = ScenarioSteps
    /\ workflowStates = [r \in RunIds |-> NoRef]
    /\ heap = <<>>
    /\ calls = <<>>
    /\ now = 0
    /\ finalStates = <<>>

NextScenario ==
    \/ \E input \in ScenarioInputs, runId \in RunIds :
           runId = NextRunId /\ LaunchWorkflow(input, runId)
    \/ \E c \in 1..Len(calls) : LaunchWorkflowContinues(c)
    \/ \E runId \in RunIds, resumeData \in ScenarioResumeDatas :
           ResumeWorkflow(runId, resumeData)
    \/ \E c \in 1..Len(calls) : ResumeWorkflowContinues(c)

SpecScenario == InitScenario /\ [][NextScenario]_vars

\* The runner on the pipeline whose suspensions carry no reason
InitNoReason ==
    /\ steps = NoReasonSteps
    /\ workflowStates = [r \in RunIds |-> NoRef]
    /\ heap = <<>>
    /\ calls = <<>>
    /\ now = 0
    /\ finalStates = <<>>

SpecNoReason == InitNoReason /\ [][NextScenario]_vars

\* what the runner has done so far: calls entered, steps started, calls ended;
\* every step of launchWorkflow and resumeWorkflow adds to it
RECURSIVE Progress(_)
Progress(n) ==
    IF n = 0 THEN 0
    ELSE Progress(n - 1) + 1 + Len(calls[n].log)
            + (IF calls[n].pc = "await" THEN 0 ELSE 1)

\* a caller outside the runner reads a state: const finalState =
\* loadWorkflowState(runId). The caller holds what the function returned, the
\* stored object itself or null; shown is what that object showed at the time
\* and at tells how far the runner had got
LoadFinalState(runId) ==
    /\ Len(finalStates) < MaxLoads
    /\ LET finalState == LoadWorkflowState(runId) IN
        finalStates' =
            Append(finalStates,
                   [runId |-> runId, finalState |-> finalState,
                    shown |-> IF finalState = NoRef THEN <<>> ELSE <<heap[finalState]>>,
                    at |-> Progress(Len(calls))])
    /\ UNCHANGED <<steps, workflowStates, heap, calls, now>>

\* The runner with callers that load states: one run, launched as run-1, and
\* resumes and loads on both runIds
NextLoad ==
    \/ \E input \in UserInputs :
           /\ Len(calls) < MaxLoadCalls
           /\ workflowStates["run-1"] = NoRef
           /\ LaunchWorkflow(input, "run-1")
    \/ \E c \in 1..Len(calls) : LaunchWorkflowContinues(c)
    \/ \E runId \in RunIds, resumeData \in ResumeDatas :
           Len(calls) < MaxLoadCalls /\ ResumeWorkflow(runId, resumeData)
    \/ \E c \in 1..Len(calls) : ResumeWorkflowContinues(c)
    \/ \E runId \in RunIds : LoadFinalState(runId)

SpecLoad == Init /\ [][NextLoad]_vars

\* The same callers on a clock that starts early enough for every reading of a
\* behaviour to be later than the one before
FirstNow == -16

InitClock ==
    /\ steps = WorkflowSteps
    /\ workflowStates = [r \in RunIds |-> NoRef]
    /\ heap = <<>>
    /\ calls = <<>>
    /\ now = FirstNow
    /\ finalStates = <<>>

SpecClock == InitClock /\ [][NextLoad]_vars

-----------------------------------------------------------------------------
(* Launches on enumerated user inputs: launchWorkflow is applied, once, to
   every text of at most MaxWords lexemes over the words the parser
   distinguishes: operation words and signs in the order the parser tests
   them, a word it ignores, and the numerals 0 and 5 *)

ParseWords ==
    {"Add", "+", "MULTIPLY", "Divide", "/", "subtract", "-", "by", "0", "5"}

ParseInputs ==
    {Str(text) : text \in UNION {[1..n -> ParseWords] : n \in 0..MaxWords}}

NextParse ==
    \/ \E input \in ParseInputs :
           /\ workflowStates["run-1"] = NoRef
           /\ LaunchWorkflow(input, "run-1")
    \/ \E c \in 1..Len(calls) : LaunchWorkflowContinues(c)

SpecParse == Init /\ [][NextParse]_vars

-----------------------------------------------------------------------------
(* Launches that reuse a runId: launchWorkflow looks nothing up before it
   stores its new state, so callers may launch 'run-1' again whatever is stored
   under it, also while an earlier call of 'run-1' is waiting for a step *)

\* a caller enters launchWorkflow(input, runId); `seen` notes the status that was
\* stored under runId when the call was made, which launchWorkflow does not read
LaunchWorkflowAgain(input, runId) ==
    /\ Len(calls) < MaxRelaunchCalls
    /\ LET st == LaunchEntered(Memory, input, runId)
           found == IF workflowStates[runId] = NoRef THEN "none"
                    ELSE Stored(runId).status
       IN
        /\ heap' = st.mem.heap
        /\ workflowStates' = st.mem.map
        /\ now' = st.mem.now
        /\ calls' = Append(calls, [st.call EXCEPT !.seen = found])
    /\ UNCHANGED <<steps, finalStates>>

NextRelaunch ==
    \/ \E input \in UserInputs : LaunchWorkflowAgain(input, "run-1")
    \/ \E c \in 1..Len(calls) : LaunchWorkflowContinues(c)
    \/ \E resumeData \in ResumeDatas :
           Len(calls) < MaxRelaunchCalls /\ ResumeWorkflow("run-1", resumeData)
    \/ \E c \in 1..Len(calls) : ResumeWorkflowContinues(c)

SpecRelaunch == Init /\ [][NextRelaunch]_vars

-----------------------------------------------------------------------------
(* One run whose awaited steps all settle: step.execute is an async function
   that returns without waiting for anything, so the promise a call awaits is
   settled and the call is continued. The run is launched once and resumed as
   often as callers like, with resume data that make each step after the first
   suspend in turn *)

FairResumeDatas ==
    { Obj([needsClarification |-> Bool(TRUE)]),
      Obj([finalNumbers |-> List(<<25, 30>>), finalOperation |-> Str(<<"multiply">>),
           clarificationProvided |-> Bool(TRUE)]),
      Obj([result |-> Num(750), needsApproval |-> Bool(TRUE)]) }

\* a caller enters resumeWorkflow(runId, resumeData)
ResumeWorkflowOften(runId, resumeData) ==
    /\ Len(calls) < MaxFairCalls
    /\ LET st == ResumeEntered(Memory, runId, resumeData) IN
        /\ heap' = st.mem.heap
        /\ workflowStates' = st.mem.map
        /\ now' = st.mem.now
        /\ calls' = Append(calls, st.call)
    /\ UNCHANGED <<steps, finalStates>>

\* the step call c awaits settles and the call goes on
Continues(c) ==
    /\ c \in 1..Len(calls)
    /\ (LaunchWorkflowContinues(c) \/ ResumeWorkflowContinues(c))

NextFair ==
    \/ \E input \in UserInputs :
           /\ workflowStates["run-1"] = NoRef
           /\ LaunchWorkflow(input, "run-1")
    \/ \E resumeData \in FairResumeDatas : ResumeWorkflowOften("run-1", resumeData)
    \/ \E c \in 1..MaxFairCalls : Continues(c)

SpecFair ==
    /\ Init /\ [][NextFair]_vars
    /\ \A c \in 1..MaxFairCalls : WF_vars(Continues(c))

-----------------------------------------------------------------------------
(* Vocabulary of the properties *)

CallIds == 1..Len(calls)

\* the stored WorkflowState of runId after the step
StoredNext(runId) == heap'[workflowStates'[runId]]

\* the step moves call c on from the await it was waiting at
Settles(c) == calls[c].pc = "await" /\ calls'[c] # calls[c]

\* the step enters a new call; NewId is its place in calls'
Enters == Len(calls') = Len(calls) + 1
NewId == Len(calls) + 1

\* position of the step with this id in the pipeline
PositionOf(id) == CHOOSE i \in 1..Len(steps) : steps[i].id = id

\* ids of the steps at positions 1..n
IdsUpTo(n) == {steps[j].id : j \in 1..n}

\* what the step.execute call recorded in a log entry resolves to
ResultOf(entry) == Execute(steps[entry.pos], entry.input)

\* a call of runId is between its entry and its return
InFlight(runId) == \E c \in CallIds : calls[c].runId = runId /\ calls[c].pc = "await"

-----------------------------------------------------------------------------
(* C1: during launchWorkflow, when the awaited step result asks for suspension,
   the stored state of the run becomes 'suspended' with that step's reason as
   suspendReason, the call returns {suspended, reason, runId, currentStep} naming
   that step, and the call executes no step after it. *)

C1_SuspendStep(c) ==
    /\ calls[c].kind = "launch"
    /\ Settles(c)
    /\ ~calls[c].pending.threw
    /\ Truthy(calls[c].pending.suspend)

\* C1: a launch step whose awaited result asks for suspension stores 'suspended'
\* with the reason, returns the suspended outcome for that step and executes no
\* further step
C1_LaunchSuspends ==
    [][\A c \in CallIds :
          C1_SuspendStep(c) =>
            /\ workflowStates'[calls[c].runId] = calls[c].ws
            /\ StoredNext(calls[c].runId).status = "suspended"
            /\ StoredNext(calls[c].runId).suspendReason = calls[c].pending.reason
            /\ calls'[c].pc = "returned"
            /\ calls'[c].outcome.o = "suspended"
            /\ calls'[c].outcome.suspended = TRUE
            /\ calls'[c].outcome.runId = calls[c].runId
            /\ calls'[c].outcome.reason = calls[c].pending.reason
            /\ calls'[c].outcome.currentStep = steps[calls[c].i].id
            /\ StoredNext(calls[c].runId).currentStep = steps[calls[c].i].id
            /\ calls'[c].log = calls[c].log
            /\ \A j \in 1..Len(calls[c].log) : calls[c].log[j].pos <= calls[c].i
      ]_vars

\* a launch has returned suspended at the third step, the fourth never executed
C1_Witness ==
    \E c \in CallIds :
        /\ calls[c].kind = "launch"
        /\ calls[c].pc = "returned"
        /\ calls[c].outcome.o = "suspended"
        /\ calls[c].outcome.currentStep = "calculation"
        /\ Len(calls[c].log) = 3
        /\ Stored(calls[c].runId).status = "suspended"
        /\ Stored(calls[c].runId).suspendReason = Str(<<"approval_needed">>)

-----------------------------------------------------------------------------
(* C2: resumeWorkflow never executes again the step recorded as currentStep at
   the suspension. An accepted resume of a suspended run starts at the step at
   the next position and passes resumeData to it as input (or, suspended at the
   last step, executes nothing and completes); from there each awaited result is
   handled as in launch: a thrown error fails the run, a suspension request
   suspends it, otherwise the output goes to the next step or, after the last
   step, the run completes with it. *)

C2_EntryRule ==
    (Enters /\ calls'[NewId].kind = "resume" /\ calls'[NewId].outcome.o # "rejected")
    => LET r == calls'[NewId].runId
           k == PositionOf(Stored(r).currentStep)
       IN /\ workflowStates[r] # NoRef
          /\ Stored(r).status = "suspended"
          /\ IF k < Len(steps)
             THEN /\ calls'[NewId].pc = "await"
                  /\ calls'[NewId].log =
                        << [pos |-> k + 1, step |-> steps[k + 1].id,
                            input |-> calls'[NewId].arg] >>
                  /\ StoredNext(r).status = "running"
                  /\ StoredNext(r).currentStep = steps[k + 1].id
             ELSE /\ calls'[NewId].pc = "returned"
                  /\ calls'[NewId].log = <<>>
                  /\ calls'[NewId].outcome.o = "completed"
                  /\ StoredNext(r).status = "completed"

C2_SettleRule(c) ==
    LET r == calls[c].runId
        k == calls[c].i
        res == calls[c].pending
    IN
    CASE res.threw ->
            /\ calls'[c].pc = "threw"
            /\ calls'[c].outcome.o = "failed"
            /\ calls'[c].log = calls[c].log
            /\ StoredNext(r).status = "failed"
      [] ~res.threw /\ Truthy(res.suspend) ->
            /\ calls'[c].pc = "returned"
            /\ calls'[c].outcome.o = "suspended"
            /\ calls'[c].outcome.currentStep = steps[k].id
            /\ calls'[c].outcome.reason = res.reason
            /\ calls'[c].log = calls[c].log
            /\ StoredNext(r).status = "suspended"
            /\ StoredNext(r).suspendReason = res.reason
            /\ StoredNext(r).stepData[steps[k].id] = res.output
      [] ~res.threw /\ ~Truthy(res.suspend) /\ k < Len(steps) ->
            /\ calls'[c].pc = "await"
            /\ calls'[c].log =
                  Append(calls[c].log, [pos |-> k + 1, step |-> steps[k + 1].id,
                                        input |-> res.output])
            /\ StoredNext(r).status = "running"
            /\ StoredNext(r).stepData[steps[k].id] = res.output
      [] OTHER ->
            /\ calls'[c].pc = "returned"
            /\ calls'[c].outcome.o = "completed"
            /\ calls'[c].outcome.result = res.output
            /\ calls'[c].log = calls[c].log
            /\ StoredNext(r).status = "completed"
            /\ StoredNext(r).stepData[steps[k].id] = res.output

\* C2: an accepted resume starts at the position after currentStep on resumeData
\* and then handles each awaited result as launch does
C2_ResumeAdvances ==
    [][/\ C2_EntryRule
       /\ \A c \in CallIds :
             (calls[c].kind = "resume" /\ Settles(c)) => C2_SettleRule(c)
      ]_vars

\* a run suspended at the first step was resumed: the resume ran steps 2 and 3,
\* the first of them on resumeData, and suspended again
C2_Witness ==
    \E c \in CallIds :
        /\ calls[c].kind = "resume"
        /\ calls[c].outcome.o = "suspended"
        /\ Len(calls[c].log) = 2
        /\ calls[c].log[1].pos = 2
        /\ calls[c].log[1].input = calls[c].arg
        /\ calls[c].log[2].pos = 3

-----------------------------------------------------------------------------
(* C3: resumeWorkflow on a runId whose stored status is completed, failed or
   running, or that the store does not hold, throws, executes no step and leaves
   the Map and every WorkflowState field (status, currentStep, stepData,
   suspendReason, lastModified) as they were. *)

C3_NotSuspended(runId) ==
    IF workflowStates[runId] = NoRef THEN TRUE
    ELSE Stored(runId).status \in {"completed", "failed", "running"}

-----------------------------------------------------------------------------
(* C4: a launchWorkflow call in which no executed step asks for suspension and
   none throws ends 'completed': it executed the N steps of the pipeline in
   order, the first on {userInput}, each later one on the output of the step
   before it, the stored stepData holds exactly one entry per step id, each the
   step's output, and the returned result is the last step's output. *)

C4_NoSuspendNoThrow(c) ==
    \A j \in 1..Len(calls[c].log) :
        /\ ~ResultOf(calls[c].log[j]).threw
        /\ ~Truthy(ResultOf(calls[c].log[j]).suspend)

\* C4: a launch without suspension and without error completes with N chained
\* steps, N stored outputs and the last output as result
C4_LaunchCompletes ==
    \A c \in CallIds :
        (calls[c].kind = "launch" /\ calls[c].pc # "await" /\ C4_NoSuspendNoThrow(c))
        => LET log == calls[c].log
               N == Len(steps)
               state == heap[calls[c].ws]
           IN /\ calls[c].pc = "returned"
              /\ calls[c].outcome.o = "completed"
              /\ calls[c].outcome.completed = TRUE
              /\ Len(log) = N
              /\ \A j \in 1..N : log[j].pos = j /\ log[j].step = steps[j].id
              /\ log[1].input = Obj([userInput |-> calls[c].arg])
              /\ \A j \in 2..N : log[j].input = ResultOf(log[j - 1]).output
              /\ calls[c].outcome.result = ResultOf(log[N]).output
              /\ workflowStates[calls[c].runId] = calls[c].ws
              /\ state.status = "completed"
              /\ DOMAIN state.stepData = IdsUpTo(N)
              /\ Cardinality(DOMAIN state.stepData) = N
              /\ \A j \in 1..N : state.stepData[steps[j].id] = ResultOf(log[j]).output

\* "Add 5 and 3" went through the four steps and completed with finalResult 8
C4_Witness ==
    \E c \in CallIds :
        /\ calls[c].kind = "launch"
        /\ calls[c].outcome.o = "completed"
        /\ Len(calls[c].log) = 4
        /\ Get(calls[c].outcome.result, "finalResult") = Num(8)
        /\ Stored(calls[c].runId).status = "completed"

-----------------------------------------------------------------------------
(* C5: when the step at position k throws during launchWorkflow or
   resumeWorkflow, the stored status becomes 'failed' and the stored stepData
   holds the outputs of the steps of positions below k, as recorded before the
   failure, and no entry for step k or a later step. *)

C5_FailureKeepsEarlierOutputs ==
    [][\A c \in CallIds :
          (Settles(c) /\ calls[c].pending.threw)
          => LET r == calls[c].runId
                 k == calls[c].i
             IN /\ workflowStates'[r] = calls[c].ws
                /\ StoredNext(r).status = "failed"
                /\ DOMAIN StoredNext(r).stepData = IdsUpTo(k - 1)
                /\ StoredNext(r).stepData = Stored(r).stepData
                /\ \A d \in CallIds :
                      calls[d].runId = r =>
                        \A j \in 1..Len(calls[d].log) :
                            calls[d].log[j].pos < k =>
                              StoredNext(r).stepData[calls[d].log[j].step]
                                = ResultOf(calls[d].log[j]).output
      ]_vars

\* one run failed in launch at step 3, another in a resume at step 3, both with
\* the outputs of steps 1 and 2 still stored
C5_Witness ==
    /\ \E c \in CallIds :
          /\ calls[c].kind = "launch" /\ calls[c].outcome.o = "failed"
          /\ calls[c].i = 3
          /\ DOMAIN Stored(calls[c].runId).stepData = {"parse-request", "clarification"}
    /\ \E c \in CallIds :
          /\ calls[c].kind = "resume" /\ calls[c].outcome.o = "failed"
          /\ calls[c].i = 3
          /\ Stored(calls[c].runId).status = "failed"
          /\ DOMAIN Stored(calls[c].runId).stepData = {"parse-request", "clarification"}

-----------------------------------------------------------------------------
(* C6: an error thrown by a step is neither swallowed nor retried: the call
   throws that same error, it executed the failing step once and executes
   nothing after it, and the store holds status 'failed' for the run when the
   error leaves the call. *)

C6_StepErrorPropagates ==
    [][/\ \A c \in CallIds :
             (Settles(c) /\ calls[c].pending.threw)
             => /\ calls'[c].pc = "threw"
                /\ calls'[c].outcome.o = "failed"
                /\ calls'[c].outcome.error = calls[c].pending.error
                /\ calls'[c].log = calls[c].log
                /\ Cardinality({j \in 1..Len(calls[c].log) :
                                    calls[c].log[j].pos = calls[c].i}) = 1
                /\ workflowStates'[calls[c].runId] = calls[c].ws
                /\ StoredNext(calls[c].runId).status = "failed"
                /\ Len(calls') = Len(calls)
       /\ \A c \in CallIds : calls[c].pc = "threw" => calls'[c] = calls[c]
      ]_vars

\* the division by zero of "Divide 8 by 0" reached the caller of launchWorkflow
C6_Witness ==
    \E c \in CallIds :
        /\ calls[c].pc = "threw"
        /\ calls[c].outcome.o = "failed"
        /\ calls[c].outcome.error = <<"Cannot", "divide", "by", "zero">>
        /\ Len(calls[c].log) = 3
        /\ Stored(calls[c].runId).status = "failed"

-----------------------------------------------------------------------------
(* C7: 'failed' and 'completed' are terminal: once the stored status of a run
   is one of them, no step changes the stored state of that run or executes a
   step for it, and every resumeWorkflow on it is refused. The stored status
   only moves running -> suspended | completed | failed and, by a resumeWorkflow
   entry alone, suspended -> running (-> completed within the same synchronous
   stretch when the run was suspended at the last step). *)

C7_StatusMoves ==
    { <<"running", "suspended">>, <<"running", "completed">>,
      <<"running", "failed">>, <<"suspended", "running">>,
      <<"suspended", "completed">> }

C7_RunRule(r) ==
    /\ Stored(r).status \in {"failed", "completed"}
       => /\ workflowStates'[r] = workflowStates[r]
          /\ StoredNext(r) = Stored(r)
          /\ \A c \in CallIds : calls[c].runId = r => calls'[c].log = calls[c].log
          /\ (Enters /\ calls'[NewId].runId = r)
             => /\ calls'[NewId].outcome.o = "rejected"
                /\ calls'[NewId].log = <<>>
    /\ \/ StoredNext(r).status = Stored(r).status
       \/ <<Stored(r).status, StoredNext(r).status>> \in C7_StatusMoves
    /\ (Stored(r).status = "suspended" /\ StoredNext(r).status # "suspended")
       => /\ Enters
          /\ calls'[NewId].kind = "resume"
          /\ calls'[NewId].runId = r

-----------------------------------------------------------------------------
(* C8: of several resumeWorkflow calls for one suspended runId that overlap (a
   call is entered while another waits at an await), at most one passes the
   precondition: at any time at most one call drives a run, while a resume
   waits the stored status of its run is 'running', and a resume entered
   meanwhile reads 'running', throws and executes nothing. *)

C8_ResumeInFlight(r) ==
    \E c \in CallIds :
        calls[c].kind = "resume" /\ calls[c].runId = r /\ calls[c].pc = "await"

\* C8: at most one call drives a run; a resume entered while another resume of
\* the run waits reads 'running' and is refused
C8_OneResumeDrives ==
    [][/\ \A r \in RunIds :
             Cardinality({c \in 1..Len(calls') :
                            calls'[c].runId = r /\ calls'[c].pc = "await"}) <= 1
       /\ \A c \in 1..Len(calls') :
             (calls'[c].kind = "resume" /\ calls'[c].pc = "await")
             => /\ workflowStates'[calls'[c].runId] = calls'[c].ws
                /\ StoredNext(calls'[c].runId).status = "running"
       /\ (Enters /\ calls'[NewId].kind = "resume"
             /\ C8_ResumeInFlight(calls'[NewId].runId))
          => /\ calls'[NewId].pc = "threw"
             /\ calls'[NewId].outcome.o = "rejected"
             /\ calls'[NewId].seen = "running"
             /\ calls'[NewId].log = <<>>
             /\ heap' = heap
      ]_vars

\* while one resume waits for its step, two more resumes of the run were refused
C8_Witness ==
    \E c, d, e \in CallIds :
        /\ c < d /\ d < e
        /\ calls[c].runId = calls[d].runId /\ calls[c].runId = calls[e].runId
        /\ calls[c].kind = "resume" /\ calls[c].pc = "await"
        /\ calls[d].outcome.o = "rejected" /\ calls[d].seen = "running"
        /\ calls[e].outcome.o = "rejected" /\ calls[e].seen = "running"

-----------------------------------------------------------------------------
(* C9: a run can suspend and resume more than once. When the launch of a run
   suspended at step 1 and its first accepted resume suspended at step 3, the
   launch executed step 1 alone and that resume steps 2 and 3, the run is
   'completed' only after a second accepted resume, which completes it by
   executing step 4 when that step neither suspends nor throws; and whenever
   the last accepted call of a run returned suspended, the stored state is
   'suspended' with currentStep the step that suspended last. *)

\* the calls of run r that were not refused, and how many of them came before c
C9_Accepted(r) ==
    {c \in CallIds : calls[c].runId = r /\ calls[c].outcome.o # "rejected"}

C9_Before(r, c) == Cardinality({d \in C9_Accepted(r) : d < c})

C9_SuspendedAt(c, pos) ==
    calls[c].outcome.o = "suspended" /\ calls[c].outcome.currentStep = steps[pos].id

C9_Positions(c) == [j \in 1..Len(calls[c].log) |-> calls[c].log[j].pos]

C9_TwoSuspensions(r) ==
    \A c1, c2 \in C9_Accepted(r) :
        (/\ C9_Before(r, c1) = 0 /\ C9_SuspendedAt(c1, 1)
         /\ C9_Before(r, c2) = 1 /\ C9_SuspendedAt(c2, 3))
        => /\ calls[c1].kind = "launch" /\ C9_Positions(c1) = <<1>>
           /\ calls[c2].kind = "resume" /\ C9_Positions(c2) = <<2, 3>>
           /\ Stored(r).status = "completed"
              => \E c3 \in C9_Accepted(r) :
                    /\ C9_Before(r, c3) >= 2
                    /\ calls[c3].kind = "resume"
                    /\ calls[c3].outcome.o = "completed"
           /\ \A c3 \in C9_Accepted(r) :
                 (C9_Before(r, c3) = 2 /\ calls[c3].pc # "await"
                    /\ C4_NoSuspendNoThrow(c3))
                 => /\ C9_Positions(c3) = <<4>>
                    /\ calls[c3].outcome.o = "completed"
                    /\ Stored(r).status = "completed"

C9_BetweenCalls(r) ==
    \A c \in C9_Accepted(r) :
        (C9_Before(r, c) = Cardinality(C9_Accepted(r)) - 1
           /\ calls[c].outcome.o = "suspended")
        => /\ Stored(r).status = "suspended"
           /\ Stored(r).currentStep = calls[c].outcome.currentStep
           /\ Stored(r).suspendReason = calls[c].outcome.reason

\* C9: a run suspended at steps 1 and 3 completes with its second resume at the
\* earliest, and is stored 'suspended' at the step that suspended last in between
C9_MultipleSuspensions ==
    \A r \in RunIds :
        workflowStates[r] # NoRef => C9_TwoSuspensions(r) /\ C9_BetweenCalls(r)

\* a run suspended by its launch at step 1, by its first resume at step 3, and
\* completed by its second resume
C9_Witness ==
    \E r \in RunIds : \E c1, c2, c3 \in C9_Accepted(r) :
        /\ C9_Before(r, c1) = 0 /\ C9_SuspendedAt(c1, 1)
        /\ C9_Before(r, c2) = 1 /\ C9_SuspendedAt(c2, 3)
        /\ C9_Before(r, c3) = 2 /\ calls[c3].outcome.o = "completed"
        /\ Stored(r).status = "completed"

-----------------------------------------------------------------------------
(* C10: single suspension round trip, on the three-step pipeline [parse,
   clarify, compute] whose second step suspends: launchWorkflow returns
   suspended with reason "needs review" and currentStep 'clarify', having
   executed steps 1 and 2 only; the following resumeWorkflow(runId, data)
   executes step 3 alone, on data, and returns completed with the stored output
   of step 3 computed from data: {doubled: 2 * data.n}, so {doubled: 10} for
   {n: 5}. *)

C10_LaunchPart(c) ==
    (calls[c].kind = "launch" /\ calls[c].pc # "await")
    => /\ calls[c].pc = "returned"
       /\ calls[c].outcome.o = "suspended"
       /\ calls[c].outcome.currentStep = "clarify"
       /\ calls[c].outcome.reason = Str(<<"needs review">>)
       /\ calls[c].outcome.runId = calls[c].runId
       /\ C9_Positions(c) = <<1, 2>>

C10_ResumePart(c) ==
    (calls[c].kind = "resume" /\ calls[c].outcome.o \notin {"rejected", "pending"})
    => LET r == calls[c].runId
           doubled == Obj([doubled |-> Num(2 * Get(calls[c].arg, "n").v)])
       IN /\ calls[c].pc = "returned"
          /\ calls[c].outcome.o = "completed"
          /\ calls[c].outcome.result = doubled
          /\ C9_Positions(c) = <<3>>
          /\ calls[c].log[1].input = calls[c].arg
          /\ Stored(r).status = "completed"
          /\ Stored(r).stepData["compute"] = doubled
          /\ DOMAIN Stored(r).stepData = {"parse", "clarify", "compute"}
          /\ calls[c].arg = Obj([n |-> Num(5)])
             => calls[c].outcome.result = Obj([doubled |-> Num(10)])

\* C10: on [parse, clarify, compute] every launch ends suspended at 'clarify' and
\* every accepted resume completes with {doubled: 2 * data.n} as step 3's output
C10_RoundTrip == \A c \in CallIds : C10_LaunchPart(c) /\ C10_ResumePart(c)

\* launch suspended at 'clarify', resume with {n: 5} completed with {doubled: 10}
C10_Witness ==
    \E c, d \in CallIds :
        /\ c < d /\ calls[c].runId = calls[d].runId
        /\ calls[c].kind = "launch"
        /\ calls[c].outcome.o = "suspended"
        /\ calls[c].outcome.currentStep = "clarify"
        /\ calls[d].kind = "resume"
        /\ calls[d].arg = Obj([n |-> Num(5)])
        /\ calls[d].outcome.o = "completed"
        /\ calls[d].outcome.result = Obj([doubled |-> Num(10)])

-----------------------------------------------------------------------------
(* C11: suspendReason is set when the run becomes suspended and cleared when
   resumeWorkflow moves it back to running: a stored state with status
   'suspended' has a reason, and a stored state with status running, completed
   or failed that an accepted resume led to has none. *)

C11_Resumed(r) ==
    \E c \in CallIds :
        calls[c].runId = r /\ calls[c].kind = "resume" /\ calls[c].outcome.o # "rejected"

\* C11: a suspended run has a suspendReason, and a run that a resume has taken
\* out of 'suspended' has none
C11_ReasonClearedOnResume ==
    \A r \in RunIds :
        workflowStates[r] # NoRef =>
            /\ Stored(r).status = "suspended" => Truthy(Stored(r).suspendReason)
            /\ (Stored(r).status \in {"running", "completed", "failed"} /\ C11_Resumed(r))
               => Stored(r).suspendReason = Undefined

-----------------------------------------------------------------------------
(* C12: every status transition is in the store before control returns to the
   caller. At the step in which an accepted launchWorkflow or resumeWorkflow
   call returns or throws, the store holds the state of that call for its runId
   with the status the caller is given: 'suspended' for a suspended outcome,
   'completed' for a completed one, 'failed' for a step's error. A stored
   status 'running' is seen only while a call of that run is between its entry
   and its return. *)

\* call c of the next state has just left the runner with an outcome
C12_Leaves(c) ==
    /\ calls'[c].pc \in {"returned", "threw"}
    /\ calls'[c].outcome.o # "rejected"
    /\ c \in CallIds => calls[c].pc = "await"

\* C12: when a call returns or throws, the stored status agrees with its outcome;
\* 'running' is stored only while a call of the run is in progress
C12_PersistedBeforeReturn ==
    [][/\ \A c \in 1..Len(calls') :
             C12_Leaves(c)
             => /\ workflowStates'[calls'[c].runId] = calls'[c].ws
                /\ StoredNext(calls'[c].runId).status = calls'[c].outcome.o
                /\ StoredNext(calls'[c].runId).status
                      \in {"suspended", "completed", "failed"}
       /\ \A r \in RunIds :
             (workflowStates'[r] # NoRef /\ StoredNext(r).status = "running")
             => \E c \in 1..Len(calls') :
                    calls'[c].runId = r /\ calls'[c].pc = "await"
      ]_vars

\* one call returned suspended, one returned completed and one threw a step's
\* error, and the store holds the matching status for the run of each
C12_Witness ==
    /\ \E c \in CallIds :
          /\ calls[c].pc = "returned" /\ calls[c].outcome.o = "suspended"
          /\ calls[c].kind = "resume"
    /\ \E c \in CallIds :
          /\ calls[c].pc = "threw" /\ calls[c].outcome.o = "failed"
          /\ Stored(calls[c].runId).status = "failed"
    /\ \E c \in CallIds :
          /\ calls[c].pc = "returned" /\ calls[c].outcome.o = "completed"
          /\ Stored(calls[c].runId).status = "completed"

-----------------------------------------------------------------------------
(* C13: launchWorkflow stores a new WorkflowState under the runId the caller
   gave, with status 'running', currentStep the first step's id and empty
   stepData, before the first step is executed: while the call waits for the
   first step, whose output is not recorded yet, the store holds that state.
   The runId held in a WorkflowState is the caller's and never changes. *)

C13_LaunchEntry ==
    (Enters /\ calls'[NewId].kind = "launch")
    => LET r == calls'[NewId].runId
           ref == calls'[NewId].ws
       IN /\ ref \notin 1..Len(heap)
          /\ ref \in 1..Len(heap')
          /\ workflowStates'[r] = ref
          /\ heap'[ref].runId = r
          /\ heap'[ref].status = "running"
          /\ heap'[ref].currentStep = steps[1].id
          /\ heap'[ref].stepData = EmptyRecord
          /\ heap'[ref].inputData = Obj([userInput |-> calls'[NewId].arg])
          /\ calls'[NewId].pc = "await"
          /\ calls'[NewId].log =
                << [pos |-> 1, step |-> steps[1].id,
                    input |-> Obj([userInput |-> calls'[NewId].arg])] >>

\* C13: a launch entry leaves a new 'running' state at the first step with no
\* outputs in the store under the caller's runId, and no step changes a runId
C13_LaunchInitialises ==
    [][/\ C13_LaunchEntry
       /\ \A ref \in 1..Len(heap) : heap'[ref].runId = heap[ref].runId
       /\ \A r \in RunIds : workflowStates'[r] # NoRef => StoredNext(r).runId = r
      ]_vars

\* the launch of run-2 waits for its first step with its initial state stored,
\* while run-1, launched before, has moved on
C13_Witness ==
    \E c \in CallIds :
        /\ calls[c].kind = "launch" /\ calls[c].runId = "run-2"
        /\ calls[c].pc = "await" /\ calls[c].i = 1
        /\ Stored("run-2").status = "running"
        /\ Stored("run-2").stepData = EmptyRecord
        /\ Stored("run-2").runId = "run-2"
        /\ Stored("run-1").status = "suspended"

-----------------------------------------------------------------------------
(* C14: within one run (its launch and the resumes on its runId) steps execute
   strictly sequentially in pipeline order: at most one step of the run is
   awaited at a time, within a call each step starts on the output of the step
   before it, and over the launch and all the resumes of the run the positions
   of the executed steps strictly increase, so that no step runs twice. *)

\* the positions of the steps executed for run r by its first n calls, in the
\* order of their execution
RECURSIVE C14_RunLog(_, _)
C14_RunLog(r, n) ==
    IF n = 0 THEN <<>>
    ELSE C14_RunLog(r, n - 1)
            \o (IF calls[n].runId = r THEN C9_Positions(n) ELSE <<>>)

C14_StrictlyIncreasing(s) == \A j \in 1..(Len(s) - 1) : s[j] < s[j + 1]

\* C14: the steps of a run execute one at a time, each call chains its steps,
\* and the executed positions of the run strictly increase over all its calls
C14_SequentialOrder ==
    \A r \in RunIds :
        /\ Cardinality({c \in CallIds : calls[c].runId = r /\ calls[c].pc = "await"}) <= 1
        /\ C14_StrictlyIncreasing(C14_RunLog(r, Len(calls)))
        /\ \A c \in CallIds :
              calls[c].runId = r =>
                /\ \A j \in 2..Len(calls[c].log) :
                      /\ calls[c].log[j].pos = calls[c].log[j - 1].pos + 1
                      /\ calls[c].log[j].input = ResultOf(calls[c].log[j - 1]).output
                /\ \A d \in CallIds :
                      (d > c /\ calls[d].runId = r /\ calls[d].log # <<>>)
                      => calls[c].pc # "await"

\* a run whose launch executed steps 1 to 3 and whose resume executed step 4
C14_Witness ==
    \E r \in RunIds :
        /\ C14_RunLog(r, Len(calls)) = <<1, 2, 3, 4>>
        /\ \E c, d \in CallIds :
              /\ c < d /\ calls[c].runId = r /\ calls[d].runId = r
              /\ calls[c].kind = "launch" /\ C9_Positions(c) = <<1, 2, 3>>
              /\ calls[d].kind = "resume" /\ C9_Positions(d) = <<4>>

-----------------------------------------------------------------------------
(* C15: runs with different runIds are independent under any interleaving of
   their calls. A step that neither enters nor continues a call of run B leaves
   B's entry in the store and B's stored state as they were; and each run goes
   as it would alone: replaying the accepted calls of a run by themselves on an
   empty store gives the same executed steps and outcomes for its calls and the
   same stored status, currentStep, stepData and suspendReason. *)

\* the store before any call
C15_Fresh == [heap |-> <<>>, map |-> [r \in RunIds |-> NoRef], now |-> 0]

C15_Settle(st) ==
    IF st.call.kind = "launch" THEN LaunchSettled(st.mem, st.call)
    ELSE ResumeSettled(st.mem, st.call)

\* the replayed call st.call taken as far as call c has got
RECURSIVE C15_Advance(_, _)
C15_Advance(st, c) ==
    IF st.call.pc = "await"
         /\ (calls[c].pc # "await" \/ Len(st.call.log) < Len(calls[c].log))
    THEN C15_Advance(C15_Settle(st), c)
    ELSE st

\* run r by itself: the accepted calls of r among the first n calls, replayed in
\* their order from the empty store; done[c] is the replayed call c
RECURSIVE C15_Alone(_, _)
C15_Alone(r, n) ==
    IF n = 0 THEN [mem |-> C15_Fresh, done |-> <<>>]
    ELSE LET prev == C15_Alone(r, n - 1) IN
         IF calls[n].runId # r \/ calls[n].outcome.o = "rejected"
         THEN [prev EXCEPT !.done = Append(@, calls[n])]
         ELSE LET entered ==
                      IF calls[n].kind = "launch"
                      THEN LaunchEntered(prev.mem, calls[n].arg, r)
                      ELSE ResumeEntered(prev.mem, r, calls[n].arg)
                  st == C15_Advance(entered, n)
              IN [mem |-> st.mem, done |-> Append(prev.done, st.call)]

\* what of a call and of a stored state is compared (not the heap reference,
\* not the reading of the clock)
C15_CallView(call) ==
    [kind |-> call.kind, runId |-> call.runId, arg |-> call.arg, pc |-> call.pc,
     i |-> call.i, pending |-> call.pending, log |-> call.log,
     outcome |-> call.outcome]

C15_StateView(state) ==
    [runId |-> state.runId, status |-> state.status,
     currentStep |-> state.currentStep, stepData |-> state.stepData,
     suspendReason |-> state.suspendReason]

C15_AsAlone(r) ==
    LET alone == C15_Alone(r, Len(calls)) IN
    /\ \A c \in CallIds :
          calls[c].runId = r => C15_CallView(alone.done[c]) = C15_CallView(calls[c])
    /\ (workflowStates[r] = NoRef) = (alone.mem.map[r] = NoRef)
    /\ workflowStates[r] # NoRef
       => C15_StateView(Stored(r)) = C15_StateView(alone.mem.heap[alone.mem.map[r]])

\* the step is none of run r's: it enters no call of r and continues none
C15_NotOf(r) ==
    /\ Enters => calls'[NewId].runId # r
    /\ \A c \in CallIds : calls[c].runId = r => calls'[c] = calls[c]

\* C15: a step of another run leaves a run's stored state alone, and every run
\* goes as its own calls would go on an empty store
C15_RunsIndependent ==
    /\ [][\A r \in RunIds :
             C15_NotOf(r)
             => /\ workflowStates'[r] = workflowStates[r]
                /\ workflowStates[r] # NoRef => StoredNext(r) = Stored(r)
         ]_vars
    /\ [](\A r \in RunIds : C15_AsAlone(r))

\* run-1 was suspended by its launch and failed in its resume while run-2 was
\* launched in between and is suspended
C15_Witness ==
    \E c, d, e \in CallIds :
        /\ c < d /\ d < e
        /\ calls[c].runId = "run-1" /\ calls[c].outcome.o = "suspended"
        /\ calls[d].runId = "run-2" /\ calls[d].kind = "launch"
        /\ calls[d].outcome.o = "suspended"
        /\ calls[e].runId = "run-1" /\ calls[e].kind = "resume"
        /\ calls[e].outcome.o = "failed"
        /\ Stored("run-1").status = "failed"
        /\ Stored("run-2").status = "suspended"

-----------------------------------------------------------------------------
(* C16: a suspended run stays suspended, with its currentStep, stepData and
   suspendReason (and every other field) unchanged, until resumeWorkflow is
   called for its runId: any other step, of this run or of another, leaves its
   stored state as it is, and no step takes an entry out of the store. *)

C16_ResumeOf(r) ==
    Enters /\ calls'[NewId].kind = "resume" /\ calls'[NewId].runId = r

\* C16: only a resumeWorkflow entry for its runId changes a suspended run, and
\* entries are never removed from the store
C16_SuspendedStays ==
    [][\A r \in RunIds :
          workflowStates[r] # NoRef
          => /\ workflowStates'[r] # NoRef
             /\ (Stored(r).status = "suspended" /\ ~C16_ResumeOf(r))
                => /\ workflowStates'[r] = workflowStates[r]
                   /\ StoredNext(r) = Stored(r)
      ]_vars

\* run-1 is still suspended at its first step, untouched since its launch, after
\* run-2 was launched, suspended and resumed
C16_Witness ==
    \E c, d, e \in CallIds :
        /\ c < d /\ d < e
        /\ calls[c].runId = "run-1" /\ calls[c].outcome.o = "suspended"
        /\ calls[d].runId = "run-2" /\ calls[d].kind = "launch"
        /\ calls[e].runId = "run-2" /\ calls[e].kind = "resume"
        /\ calls[e].outcome.o \in {"completed", "failed", "suspended"}
        /\ Stored("run-1").status = "suspended"
        /\ Stored("run-1").currentStep = "parse-request"
        /\ \A x \in CallIds : calls[x].runId = "run-1" => x = c

-----------------------------------------------------------------------------
(* C17: loadWorkflowState returns a copy of the stored WorkflowState: what a
   caller got by loading a run is not changed by a later launchWorkflow or
   resumeWorkflow on that run, so that a state loaded while the run was
   suspended still shows 'suspended' after a resume has completed the run. *)

\* C17: every state a caller has loaded still shows what it showed when loaded
C17_InspectReturnsCopy ==
    \A k \in 1..Len(finalStates) :
        finalStates[k].finalState # NoRef
        => heap[finalStates[k].finalState] = finalStates[k].shown[1]

-----------------------------------------------------------------------------
(* C18: loading a state is idempotent and read-only: a loadWorkflowState call
   changes neither the store nor any call, it returns the state stored for the
   runId, loading a runId again with no step of the runner in between returns
   the same state showing the same, and an unknown runId yields null and gets no
   entry. *)

C18_Loads == Len(finalStates') = Len(finalStates) + 1

\* C18: a load leaves store and calls unchanged, returns the stored state (null
\* for an unknown runId), and returns the same again when nothing ran in between
C18_InspectIdempotent ==
    [][C18_Loads
       => LET new == finalStates'[Len(finalStates) + 1] IN
          /\ heap' = heap
          /\ workflowStates' = workflowStates
          /\ calls' = calls
          /\ new.finalState = workflowStates[new.runId]
          /\ workflowStates[new.runId] = NoRef => new.shown = <<>>
          /\ workflowStates[new.runId] # NoRef => new.shown = <<Stored(new.runId)>>
          /\ \A k \in 1..Len(finalStates) :
                (finalStates[k].runId = new.runId /\ finalStates[k].at = new.at)
                => /\ finalStates[k].finalState = new.finalState
                   /\ finalStates[k].shown = new.shown
      ]_vars

\* a suspended run was loaded twice in a row, after its launch and a refused
\* resume of the unknown run-2
C18_Witness ==
    /\ Len(finalStates) = 2
    /\ finalStates[1].runId = "run-1" /\ finalStates[2].runId = "run-1"
    /\ finalStates[1].at = finalStates[2].at
    /\ finalStates[1].finalState # NoRef
    /\ finalStates[1].shown[1].status = "suspended"
    /\ finalStates[2] = finalStates[1]
    /\ workflowStates["run-2"] = NoRef

-----------------------------------------------------------------------------
(* C19: the error of a refused resumeWorkflow tells its cases apart: the error
   for a runId that is not in the store differs from the error for a run that
   is stored but running, completed or failed. *)

\* C19: for one runId, the error thrown while it was not stored differs from the
\* error thrown while its run was stored and not suspended
C19_RejectErrorsDiffer ==
    \A c, d \in CallIds :
        (/\ calls[c].outcome.o = "rejected" /\ calls[d].outcome.o = "rejected"
         /\ calls[c].runId = calls[d].runId
         /\ calls[c].seen = "none"
         /\ calls[d].seen \in {"running", "completed", "failed"})
        => calls[c].outcome.error # calls[d].outcome.error

-----------------------------------------------------------------------------
(* C20: a step result with suspend = true and an empty or missing reason is
   surfaced at once as a contract violation error by the runner: the call that
   awaited it throws, and no run is stored 'suspended' with an empty or missing
   suspendReason. *)

\* the last step call c executed asked for suspension without a reason
C20_SuspendWithoutReason(c) ==
    /\ calls[c].log # <<>>
    /\ LET last == ResultOf(calls[c].log[Len(calls[c].log)]) IN
        ~last.threw /\ Truthy(last.suspend) /\ ~Truthy(last.reason)

\* C20: a call that got a suspension without reason has thrown, and no suspended
\* run is stored without a reason
C20_SuspensionNeedsReason ==
    /\ \A c \in CallIds :
          (calls[c].pc # "await" /\ C20_SuspendWithoutReason(c)) => calls[c].pc = "threw"
    /\ \A r \in RunIds :
          (workflowStates[r] # NoRef /\ Stored(r).status = "suspended")
          => Truthy(Stored(r).suspendReason)

-----------------------------------------------------------------------------
(* C21: in the four-step workflow (parse-request, clarification, calculation,
   approval) every step result that asks for suspension carries a non-empty
   reason, 'clarification_needed' or 'approval_needed', whatever the input or
   the resume data; so every stored state with status 'suspended' has one of
   these two strings as suspendReason. *)

C21_Reasons == {Str(<<"clarification_needed">>), Str(<<"approval_needed">>)}

\* what the callers of the model hand to the runner, as step inputs
C21_StepInputs == {Obj([userInput |-> input]) : input \in UserInputs} \cup ResumeDatas

C21_HasReason(stepResult) ==
    (~stepResult.threw /\ Truthy(stepResult.suspend))
    => /\ stepResult.reason \in C21_Reasons
       /\ Truthy(stepResult.reason)

\* C21: each of the four steps gives one of the two reasons whenever it asks for
\* suspension, and every suspended run is stored with one of them
C21_SuspendedHasReason ==
    /\ \A i \in 1..Len(WorkflowSteps) : \A input \in C21_StepInputs :
          C21_HasReason(Execute(WorkflowSteps[i], input))
    /\ \A c \in CallIds : \A j \in 1..Len(calls[c].log) :
          C21_HasReason(ResultOf(calls[c].log[j]))
    /\ \A r \in RunIds :
          (workflowStates[r] # NoRef /\ Stored(r).status = "suspended")
          => /\ Stored(r).suspendReason \in C21_Reasons
             /\ Stored(r).suspendReason.t = "string"
             /\ Stored(r).suspendReason.v # <<>>

\* one run is suspended for clarification and the other for approval
C21_Witness ==
    /\ workflowStates["run-1"] # NoRef /\ workflowStates["run-2"] # NoRef
    /\ Stored("run-1").status = "suspended" /\ Stored("run-2").status = "suspended"
    /\ {Stored("run-1").suspendReason, Stored("run-2").suspendReason} = C21_Reasons

-----------------------------------------------------------------------------
(* C22: lastModified, a logical clock, is updated on every state transition of
   a run: every change of a stored run's status, currentStep or stepData goes
   together with an update of lastModified, and the lastModified of a run never
   decreases. *)

C22_Known(r) == workflowStates[r] # NoRef /\ workflowStates'[r] = workflowStates[r]

\* C22 as claimed: a step that changes the status, the currentStep or the
\* stepData of a stored run raises its lastModified, and no step lowers it
C22_EveryChangeStamped ==
    [][\A r \in RunIds :
          C22_Known(r)
          => /\ StoredNext(r).lastModified >= Stored(r).lastModified
             /\ (\/ StoredNext(r).status # Stored(r).status
                 \/ StoredNext(r).currentStep # Stored(r).currentStep
                 \/ StoredNext(r).stepData # Stored(r).stepData)
                => StoredNext(r).lastModified > Stored(r).lastModified
      ]_vars

\* C22 as amended: a step that changes the status of a stored run raises its
\* lastModified to the reading of the clock taken in that step, and no step
\* lowers the lastModified of a run
C22_StatusChangeStamped ==
    [][\A r \in RunIds :
          C22_Known(r)
          => /\ StoredNext(r).lastModified >= Stored(r).lastModified
             /\ StoredNext(r).status # Stored(r).status
                => /\ StoredNext(r).lastModified > Stored(r).lastModified
                   /\ StoredNext(r).lastModified = now'
                   /\ now' > now
      ]_vars

\* a run was launched, suspended, resumed and completed, each time with a later
\* lastModified: five readings of the clock after the start
C22_Witness ==
    /\ workflowStates["run-1"] # NoRef
    /\ Stored("run-1").status = "completed"
    /\ \E c \in CallIds : calls[c].kind = "resume" /\ calls[c].outcome.o = "completed"
    /\ Stored("run-1").lastModified = FirstNow + 5
    /\ now = FirstNow + 5

-----------------------------------------------------------------------------
(* C23: in the four-step workflow the suspension points are the steps flagged
   needsSuspension, Clarification and Approval: whenever launchWorkflow or
   resumeWorkflow returns a suspended outcome, its currentStep is
   'clarification' or 'approval', never 'parse-request' or 'calculation'. *)

\* C23: every suspended outcome, and every suspended stored state, names a step
\* that is flagged needsSuspension
C23_SuspendsAtFlaggedSteps ==
    /\ \A c \in CallIds :
          calls[c].outcome.o = "suspended"
          => /\ calls[c].outcome.currentStep \in {"clarification", "approval"}
             /\ steps[PositionOf(calls[c].outcome.currentStep)].needsSuspension
    /\ \A r \in RunIds :
          (workflowStates[r] # NoRef /\ Stored(r).status = "suspended")
          => Stored(r).currentStep \in {"clarification", "approval"}

-----------------------------------------------------------------------------
(* C24: clarification scenario. When launchWorkflow suspended with reason
   'clarification_needed', a following resumeWorkflow that supplies the
   clarified data {finalNumbers, finalOperation, clarificationProvided} resumes
   the run, the calculation is carried out on the clarified numbers, and the
   run ends completed (or suspended for approval), not failed. *)

\* the resume data of the scenario: clarified numbers and a known operation
C24_Clarified(data) ==
    /\ Get(data, "finalNumbers").t = "array"
    /\ Get(data, "finalOperation") \in
          {Str(<<"add">>), Str(<<"multiply">>), Str(<<"divide">>), Str(<<"subtract">>)}
    /\ Get(data, "clarificationProvided") = Bool(TRUE)

\* call d is the first resume of a run whose launch c asked for clarification
C24_Scenario(c, d) ==
    /\ c < d /\ calls[c].runId = calls[d].runId
    /\ calls[c].kind = "launch"
    /\ calls[c].outcome.o = "suspended"
    /\ calls[c].outcome.reason = Str(<<"clarification_needed">>)
    /\ calls[d].kind = "resume" /\ calls[d].outcome.o # "rejected"
    /\ C9_Before(calls[d].runId, d) = 1
    /\ C24_Clarified(calls[d].arg)
    /\ calls[d].pc # "await"

\* C24: the resume of the scenario runs the calculation on the clarified numbers
\* and ends completed or suspended for approval
C24_ClarifiedResumeSucceeds ==
    \A c, d \in CallIds :
        C24_Scenario(c, d)
        => /\ calls[d].outcome.o \in {"completed", "suspended"}
           /\ Stored(calls[d].runId).status \in {"completed", "suspended"}
           /\ \E j \in 1..Len(calls[d].log) :
                 /\ calls[d].log[j].step = "calculation"
                 /\ Get(calls[d].log[j].input, "finalNumbers")
                       = Get(calls[d].arg, "finalNumbers")
                 /\ Get(calls[d].log[j].input, "finalOperation")
                       = Get(calls[d].arg, "finalOperation")

-----------------------------------------------------------------------------
(* C25: graceful recovery. A run that ended 'failed' can be resumed without
   restarting the workflow: resumeWorkflow(runId, correctedData) on a failed
   run is accepted and retries from the failed step onward with the corrected
   data. *)

\* C25: a resumeWorkflow call that finds its run 'failed' is accepted and
\* executes the failed step again, on the data it was given
C25_ResumeFromFailure ==
    \A c \in CallIds :
        (calls[c].kind = "resume" /\ calls[c].seen = "failed")
        => /\ calls[c].outcome.o # "rejected"
           /\ calls[c].log # <<>>
           /\ calls[c].log[1].input = calls[c].arg

-----------------------------------------------------------------------------
(* C26: a launchWorkflow call (with no resume) can end in 'failed' only through
   a division whose second parsed number is 0. 'Unknown operation' cannot be
   reached from a launch, because an unrecognised operation makes parse-request
   ask for clarification first; 'Unknown operation' and a non-iterable
   finalNumbers can only be reached through caller-supplied resume data. *)

C26_DivideByZero == <<"Cannot", "divide", "by", "zero">>

\* launch call c failed in the calculation step, dividing by a second parsed
\* number that is 0
C26_FailedDividing(c) ==
    LET call == calls[c]
        last == call.log[Len(call.log)]
        parsed == Get(Stored(call.runId).stepData["parse-request"], "numbers")
    IN /\ call.pc = "threw"
       /\ call.outcome.error = C26_DivideByZero
       /\ Len(call.log) = 3 /\ last.step = "calculation"
       /\ Get(last.input, "finalOperation") = Str(<<"divide">>)
       /\ Get(last.input, "finalNumbers") = parsed
       /\ Len(parsed.v) >= 2 /\ parsed.v[2] = 0

\* C26: every launch that ends 'failed' failed dividing by a second parsed
\* number 0; no launch ends with 'Unknown operation' or a non-iterable
\* finalNumbers
C26_LaunchFailsOnlyDividingByZero ==
    /\ \A c \in CallIds :
          (calls[c].kind = "launch"
           /\ (calls[c].outcome.o = "failed" \/ calls[c].pc = "threw"))
          => C26_FailedDividing(c)
    /\ \A r \in RunIds :
          (workflowStates[r] # NoRef /\ Stored(r).status = "failed")
          => \E c \in CallIds : calls[c].runId = r /\ C26_FailedDividing(c)

\* some launch failed, and its text holds a number other than 0 before the 0
C26_Witness ==
    \E c \in CallIds :
        /\ calls[c].kind = "launch" /\ calls[c].outcome.o = "failed"
        /\ C26_FailedDividing(c)
        /\ Get(calls[c].log[3].input, "finalNumbers") = List(<<5, 0>>)

-----------------------------------------------------------------------------
(* C27: the stored currentStep is always the id of a step of the pipeline, so
   resumeWorkflow's 'Invalid step' branch is never taken; and when a run is
   'completed' its currentStep is the id of the last step of the pipeline. *)

C27_StepIds == {steps[i].id : i \in 1..Len(steps)}

\* C27: every workflow state names a step of the pipeline, no resume finds an
\* invalid step, and a completed run names the last step
C27_CurrentStepIsAStep ==
    /\ \A ref \in 1..Len(heap) :
          /\ heap[ref].currentStep \in C27_StepIds
          /\ FindIndex(heap[ref].currentStep) \in 1..Len(steps)
          /\ heap[ref].status = "completed"
             => heap[ref].currentStep = steps[Len(steps)].id
    /\ \A c \in CallIds :
          /\ calls[c].outcome.o = "failed"
             => (Len(calls[c].outcome.error) < 2
                 \/ SubSeq(calls[c].outcome.error, 1, 2) # <<"Invalid", "step:">>)
          /\ (calls[c].kind = "resume" /\ calls[c].outcome.o # "rejected")
             => calls[c].log # <<>> \/ calls[c].outcome.o = "completed"

\* a resume found the step its run was suspended at, executed the steps after
\* it and completed the run at the last step
C27_Witness ==
    \E c \in CallIds :
        /\ calls[c].kind = "resume" /\ calls[c].outcome.o = "completed"
        /\ calls[c].log # <<>>
        /\ Stored(calls[c].runId).status = "completed"
        /\ Stored(calls[c].runId).currentStep = "approval"

-----------------------------------------------------------------------------
(* C28: resuming a run that is suspended at the last step of the pipeline
   executes no step: the run goes straight to 'completed', the returned result
   is the resumeData itself, and the stored output of the last step stays what
   was recorded at suspension (for 'approval', {suspended: true}). *)

\* resume call c was accepted on a run suspended at the last step; d is the
\* call that suspended it there
C28_ResumeAtLastStep(d, c) ==
    /\ d < c /\ calls[d].runId = calls[c].runId
    /\ calls[d].outcome.o = "suspended"
    /\ calls[d].outcome.currentStep = steps[Len(steps)].id
    /\ calls[c].kind = "resume" /\ calls[c].outcome.o # "rejected"
    /\ \A e \in CallIds :
          (d < e /\ e < c /\ calls[e].runId = calls[c].runId)
          => calls[e].outcome.o = "rejected"

\* C28: an accepted resume of a run suspended at the last step executes no
\* step, returns {completed: true, result: resumeData}, and leaves the stored
\* output of the last step as the suspension recorded it
C28_LastStepResumeCompletes ==
    \A d, c \in CallIds :
        C28_ResumeAtLastStep(d, c)
        => LET last == steps[Len(steps)].id
               state == heap[calls[c].ws]
           IN /\ calls[c].log = <<>>
              /\ calls[c].pc = "returned"
              /\ calls[c].outcome = Completed(calls[c].arg)
              /\ state.status = "completed"
              /\ state.currentStep = last
              /\ state.stepData[last] = Obj([suspended |-> Bool(TRUE)])

\* a run suspended at 'approval' was resumed
C28_Witness ==
    \E d, c \in CallIds :
        /\ C28_ResumeAtLastStep(d, c)
        /\ calls[d].outcome.currentStep = "approval"
        /\ calls[c].outcome.o = "completed"
        /\ Get(calls[c].outcome.result, "needsApproval") = Bool(TRUE)

-----------------------------------------------------------------------------
(* C29: launchWorkflow makes no check for an existing run. Calling it with a
   runId that already has a stored run, in any status, replaces the stored
   state with a fresh one (status 'running', empty stepData, no suspendReason);
   the earlier run's progress is lost, and a later resumeWorkflow meant for the
   earlier suspension acts on the new run. *)

\* the step enters launchWorkflow for a runId that has a stored state
C29_Relaunch ==
    /\ Enters
    /\ calls'[NewId].kind = "launch"
    /\ workflowStates[calls'[NewId].runId] # NoRef

\* the store then holds a new, fresh state object; the earlier object is left as
\* it was, with no entry of the store leading to it
C29_Replaced ==
    LET r == calls'[NewId].runId
        old == workflowStates[r]
        new == workflowStates'[r]
    IN /\ calls'[NewId].outcome.o # "rejected"
       /\ new \notin 1..Len(heap) /\ new # old /\ new = calls'[NewId].ws
       /\ heap'[new].runId = r
       /\ heap'[new].status = "running"
       /\ heap'[new].stepData = EmptyRecord
       /\ heap'[new].suspendReason = Undefined
       /\ heap'[new].inputData = Obj([userInput |-> calls'[NewId].arg])
       /\ \A ref \in 1..Len(heap) : heap'[ref] = heap[ref]
       /\ \A q \in RunIds : workflowStates'[q] # old

\* the launches of run r among the calls before c, and the latest of them
C29_LaunchesBefore(r, c) ==
    {l \in CallIds : l < c /\ calls[l].kind = "launch" /\ calls[l].runId = r}

C29_LatestLaunch(r, c) ==
    CHOOSE l \in C29_LaunchesBefore(r, c) :
        \A k \in C29_LaunchesBefore(r, c) : k <= l

\* an accepted resume acts on the state of the latest launch of its runId,
\* where no launch of that runId found the stored run still 'running'
C29_ResumeActsOnNewRun(c) ==
    LET r == calls[c].runId IN
    (/\ calls[c].kind = "resume"
     /\ calls[c].outcome.o # "rejected"
     /\ \A l \in C29_LaunchesBefore(r, c) : calls[l].seen # "running")
    => /\ C29_LaunchesBefore(r, c) # {}
       /\ calls[c].ws = calls[C29_LatestLaunch(r, c)].ws
       /\ heap[calls[c].ws].inputData
             = Obj([userInput |-> calls[C29_LatestLaunch(r, c)].arg])

\* C29 as claimed: a launch under a runId that has a stored state, whatever its
\* status, leaves a fresh 'running' state with no outputs and no suspendReason
\* in the store, and every resume accepted afterwards acts on the state of the
\* latest launch
C29_RelaunchLosesEarlierRun ==
    /\ [][C29_Relaunch => C29_Replaced]_vars
    /\ [](\A c \in CallIds :
             (calls[c].kind = "resume" /\ calls[c].outcome.o # "rejected")
             => /\ C29_LaunchesBefore(calls[c].runId, c) # {}
                /\ calls[c].ws = calls[C29_LatestLaunch(calls[c].runId, c)].ws)

\* C29 as amended: a launch under a runId that has a stored state, whatever its
\* status, leaves a fresh 'running' state with no outputs and no suspendReason
\* in the store; resumes accepted afterwards act on the state of the latest
\* launch where no launch of that runId found the stored run 'running'
C29_RelaunchReplaces ==
    /\ [][C29_Relaunch => C29_Replaced]_vars
    /\ [](\A c \in CallIds : C29_ResumeActsOnNewRun(c))

\* a run was suspended for approval, launched again with another input and
\* suspended for clarification, and the resume that followed acted on the new run
C29_Witness ==
    \E d, l, c \in CallIds :
        /\ d < l /\ l < c
        /\ calls[d].kind = "launch" /\ calls[d].outcome.o = "suspended"
        /\ calls[d].outcome.reason = Str(<<"approval_needed">>)
        /\ calls[l].kind = "launch" /\ calls[l].seen = "suspended"
        /\ calls[l].outcome.o = "suspended"
        /\ calls[l].outcome.reason = Str(<<"clarification_needed">>)
        /\ calls[c].kind = "resume" /\ calls[c].outcome.o # "rejected"
        /\ calls[c].ws = calls[l].ws /\ calls[c].ws # calls[d].ws
        /\ calls[c].log[1].step = "clarification"

-----------------------------------------------------------------------------
(* C30: assuming every step's execute terminates, every launchWorkflow and
   every accepted resumeWorkflow terminates after executing at most N steps,
   N the length of the pipeline; a run whose status is 'running' eventually
   reaches 'suspended', 'completed' or 'failed'; and a run accepts at most N
   resumes before it is 'completed' or 'failed'. *)

\* the resumes of run r that were accepted
C30_AcceptedResumes(r) ==
    {c \in CallIds : /\ calls[c].kind = "resume" /\ calls[c].runId = r
                     /\ calls[c].outcome.o # "rejected"}

\* no call executes more than N steps, or a step twice; no run accepts more
\* than N resumes, and none once it is 'completed' or 'failed'
C30_Bounded ==
    /\ \A c \in CallIds :
          /\ Len(calls[c].log) <= Len(steps)
          /\ \A j, k \in 1..Len(calls[c].log) :
                j < k => calls[c].log[j].pos < calls[c].log[k].pos
    /\ \A r \in RunIds :
          /\ Cardinality(C30_AcceptedResumes(r)) <= Len(steps)
          /\ \A c \in C30_AcceptedResumes(r) : calls[c].seen = "suspended"

C30_Running(r) == workflowStates[r] # NoRef /\ Stored(r).status = "running"

C30_Rests(r) ==
    workflowStates[r] # NoRef
    /\ Stored(r).status \in {"suspended", "completed", "failed"}

\* C30: every call that waits for a step returns or throws, having executed at
\* most N steps; a 'running' run becomes 'suspended', 'completed' or 'failed';
\* a run accepts at most N resumes
C30_Terminates ==
    /\ []C30_Bounded
    /\ \A c \in 1..MaxFairCalls :
          (c \in CallIds /\ calls[c].pc = "await")
          ~> (c \in CallIds /\ calls[c].pc \in {"returned", "threw"})
    /\ \A r \in RunIds : C30_Running(r) ~> C30_Rests(r)

\* a run was suspended at each of its N steps in turn: it accepted N resumes
\* and the last one completed it
C30_Witness ==
    /\ Cardinality(C30_AcceptedResumes("run-1")) = Len(steps)
    /\ Stored("run-1").status = "completed"
    /\ \A c \in CallIds : calls[c].pc # "await"

====
